---- MODULE Spec2Model ----
(***************************************************************************)
(* Model of the MedGenie API (src/app/main.py): the text normalizer        *)
(* clean_text, the summarization wrapper generate_summary, and the four    *)
(* request handlers over the 'summaries' collection of the document store. *)
(*                                                                         *)
(* Strings are sequences of one-character strings, so that replace, split, *)
(* join, slicing and string comparison are computed as Python and the      *)
(* store compute them.  Optional values are sequences of length 0 (None)   *)
(* or 1 (a value).                                                         *)
(***************************************************************************)
EXTENDS Integers, Sequences, FiniteSets

VARIABLES text, result, store, clock, req, resp, updated, inflight, lastWriter

textVars == <<text, result>>
apiVars  == <<store, clock, req, resp, updated>>
raceVars == <<inflight, lastWriter>>
vars     == <<text, result, store, clock, req, resp, updated, inflight, lastWriter>>

(***************************************************************************)
(* Bounds of the model.                                                    *)
(***************************************************************************)
MaxPieces  == 2     \* pieces spliced together to build an input text
MaxRecords == 2     \* records the store may hold
MaxClock   == 3     \* writes (each takes one server timestamp)

(***************************************************************************)
(* Optional[T]                                                             *)
(***************************************************************************)
None == <<>>
Some(x) == <<x>>

(***************************************************************************)
(* clean_text                                                              *)
(***************************************************************************)
CLS == <<"[", "C", "L", "S", "]">>
SEP == <<"[", "S", "E", "P", "]">>
BOS == <<"<", "s", ">">>
EOS == <<"<", "/", "s", ">">>
Markers == {CLS, SEP, BOS, EOS}

\* the characters str.split() treats as separators, within the alphabet
Whitespace == {" ", "\t"}

Drop(s, n) == SubSeq(s, n + 1, Len(s))
Take(s, n) == SubSeq(s, 1, IF n < Len(s) THEN n ELSE Len(s))

Least(S) == CHOOSE i \in S : \A j \in S : i <= j

\* the positions where old occurs in s
Occurrences(s, old) ==
    {i \in 1..(Len(s) - Len(old) + 1) : SubSeq(s, i, i + Len(old) - 1) = old}

\* s.replace(old, ''): find the first occurrence, keep what precedes it,
\* skip it, and go on with what follows it
RECURSIVE Replace(_, _)
Replace(s, old) ==
    IF Occurrences(s, old) = {} THEN s
    ELSE LET i == Least(Occurrences(s, old))
         IN  SubSeq(s, 1, i - 1) \o Replace(Drop(s, i + Len(old) - 1), old)

\* s.split(): the maximal runs of non-whitespace characters, in order
RECURSIVE Split(_)
Split(s) ==
    LET starts == {i \in 1..Len(s) : s[i] \notin Whitespace}
    IN  IF starts = {} THEN <<>>
        ELSE LET b == Least(starts)
                 ends == {i \in b..Len(s) : s[i] \in Whitespace}
                 e == IF ends = {} THEN Len(s) + 1 ELSE Least(ends)
             IN  <<SubSeq(s, b, e - 1)>> \o Split(Drop(s, e - 1))

\* ' '.join(words)
RECURSIVE Join(_)
Join(words) ==
    IF words = <<>> THEN <<>>
    ELSE IF Len(words) = 1 THEN words[1]
    ELSE words[1] \o <<" ">> \o Join(Tail(words))

clean_text(t) ==
    Join(Split(Replace(Replace(Replace(Replace(t, CLS), SEP), BOS), EOS)))

(***************************************************************************)
(* generate_summary.  The summarizer is external: its outcome is an input, *)
(* None when the call raises, Some(summary_text) when it returns.          *)
(***************************************************************************)
FallbackLen == 200
Ellipsis == <<".", ".", ".">>

\* faulty variant: the fallback text is normalized too
generate_summary_normalizing(t, outcome) ==
    IF outcome # None THEN clean_text(outcome[1])
    ELSE clean_text(Take(t, FallbackLen) \o Ellipsis)

generate_summary(t, outcome) ==
    IF outcome # None THEN clean_text(outcome[1])
    ELSE Take(t, FallbackLen) \o Ellipsis

(***************************************************************************)
(* Inputs of the text functions: texts spliced from markers, whitespace    *)
(* and ordinary characters, optionally with a long run of characters       *)
(* before or after, which puts the text across the fallback's cut.         *)
(***************************************************************************)
Pieces == Markers \cup {<<" ">>, <<"\t">>, <<"a">>, <<"<">>}
PadLen == FallbackLen - 2
Padding == [i \in 1..PadLen |-> "a"]
ModelOutputs == { <<"<", "s", ">", "a", " ", " ", "a", "<", "/", "s", ">">>,
                  <<"a", " ", "a">> }
SummarizerOutcomes == {None} \cup {Some(s) : s \in ModelOutputs}

Splice(s, piece, pos) == SubSeq(s, 1, pos) \o piece \o Drop(s, pos)

NoResult == [op |-> "none"]

NoText == [pieces |-> 0, padded |-> FALSE, value |-> <<>>]

TextInsert(piece, pos) ==
    /\ result.op = "none"
    /\ ~text.padded
    /\ text.pieces < MaxPieces
    /\ text' = [text EXCEPT !.pieces = @ + 1, !.value = Splice(@, piece, pos)]
    /\ UNCHANGED result

TextPad(front) ==
    /\ result.op = "none"
    /\ ~text.padded
    /\ text' = [text EXCEPT !.padded = TRUE,
                            !.value = IF front THEN Padding \o @ ELSE @ \o Padding]
    /\ UNCHANGED result

CallCleanText ==
    /\ result.op = "none"
    /\ result' = [op |-> "clean_text", value |-> clean_text(text.value)]
    /\ UNCHANGED text

CallGenerateSummary(outcome) ==
    /\ result.op = "none"
    /\ result' = [op |-> "generate_summary", outcome |-> outcome,
                  value |-> generate_summary(text.value, outcome)]
    /\ UNCHANGED text

(***************************************************************************)
(* The document store: the 'summaries' collection, a map from document id  *)
(* to the document's fields.                                               *)
(***************************************************************************)
Ids == 1..MaxRecords
Patients == {"p1", "p2"}
Diagnoses == {"flu", "cold"}
Texts == { <<"<", "s", ">", " ", "a">> }
Dates == { <<>>, <<"1">> }

Digit == [d \in 0..9 |-> CASE d = 0 -> "0" [] d = 1 -> "1" [] d = 2 -> "2"
                           [] d = 3 -> "3" [] d = 4 -> "4" [] d = 5 -> "5"
                           [] d = 6 -> "6" [] d = 7 -> "7" [] d = 8 -> "8"
                           [] OTHER -> "9"]
Ord(c) == CHOOSE d \in 0..9 : Digit[d] = c

\* datetime.datetime.now().isoformat(): a fixed-width rendering of the time
IsoFormat(t) == <<Digit[(t \div 10) % 10], Digit[t % 10]>>

\* string comparison as the store orders string fields: by code point,
\* a proper prefix first
RECURSIVE StrLess(_, _)
StrLess(a, b) ==
    IF b = <<>> THEN FALSE
    ELSE IF a = <<>> THEN TRUE
    ELSE IF Head(a) = Head(b) THEN StrLess(Tail(a), Tail(b))
    ELSE Ord(Head(a)) < Ord(Head(b))

\* DocumentReference.update / dict item assignment: the given fields
\* replace or extend the others
Merge(doc, fields) ==
    [k \in DOMAIN doc \cup DOMAIN fields |->
        IF k \in DOMAIN fields THEN fields[k] ELSE doc[k]]

\* faulty variant: ascending order
Before_ascending(i, j) ==
    \/ StrLess(store[i].visit_date, store[j].visit_date)
    \/ store[i].visit_date = store[j].visit_date /\ i < j

\* .where('patient_id', '==', p).order_by('visit_date', DESCENDING):
\* descending visit_date, equal dates by descending document id
Before(i, j) ==
    \/ StrLess(store[j].visit_date, store[i].visit_date)
    \/ store[i].visit_date = store[j].visit_date /\ i > j

RECURSIVE OrderDesc(_)
OrderDesc(S) ==
    IF S = {} THEN <<>>
    ELSE LET first == CHOOSE i \in S : \A j \in S \ {i} : Before(i, j)
         IN  <<first>> \o OrderDesc(S \ {first})

Query(patient_id) ==
    OrderDesc({i \in DOMAIN store : store[i].patient_id = patient_id})

(***************************************************************************)
(* Outcomes of a handler body, and the responses the client sees.          *)
(***************************************************************************)
HTTPException(status_code, detail) ==
    [type |-> "HTTPException", status_code |-> status_code, detail |-> detail]
StoreError == [type |-> "StoreError", message |-> "store unavailable"]

\* str(e); the only HTTPException raised inside a try block is the 404
Str(e) ==
    IF e.type = "HTTPException" THEN "404: Document not found" ELSE e.message

Return(body) == [raised |-> FALSE, body |-> body]
Raise(e) == [raised |-> TRUE, exc |-> e]

Response(outcome) ==
    IF outcome.raised
    THEN [status_code |-> outcome.exc.status_code, detail |-> outcome.exc.detail]
    ELSE [status_code |-> 200, body |-> outcome.body]

\* try: <body>  except Exception as e: raise HTTPException(500, detail)
Except(outcome, detail) ==
    IF outcome.raised THEN Raise(HTTPException(500, detail)) ELSE outcome
ExceptStr(outcome) ==
    IF outcome.raised THEN Raise(HTTPException(500, Str(outcome.exc))) ELSE outcome

NoRequest == [op |-> "none"]

Init ==
    /\ store = <<>>
    /\ clock = 0
    /\ req = NoRequest
    /\ resp = [status_code |-> 0]
    /\ updated = {}
    /\ text = NoText
    /\ result = NoResult
    /\ inflight = [p \in 1..2 |-> [pc |-> "idle"]]
    /\ lastWriter = 0

(***************************************************************************)
(* GET /                                                                   *)
(***************************************************************************)
read_root(storeUp) ==
    /\ req' = [op |-> "read_root", storeUp |-> storeUp]
    /\ resp' = Response(Except(
                  IF storeUp
                  THEN Return([status |-> "healthy",
                               message |-> "MedGenie API is running"])
                  ELSE Raise(StoreError),
                  "Database connection error"))
    /\ UNCHANGED <<store, clock, updated>>

(***************************************************************************)
(* POST /summarize                                                         *)
(***************************************************************************)
\* faulty variant: only a missing visit_date is replaced by the time
VisitDateOrNow_ifNone(visit_date) ==
    IF visit_date # None THEN visit_date[1] ELSE IsoFormat(clock)

\* summary_request.visit_date or datetime.datetime.now().isoformat()
VisitDateOrNow(visit_date) ==
    IF visit_date # None /\ visit_date[1] # <<>> THEN visit_date[1]
    ELSE IsoFormat(clock)

\* faulty variant: the stored original_text is the normalized text
NewDocument_cleaned(r, summary) ==
    [original_text |-> clean_text(r.text),
     summary       |-> summary,
     patient_id    |-> r.patient_id,
     visit_date    |-> IF r.visit_date # None /\ r.visit_date[1] # <<>>
                       THEN r.visit_date[1] ELSE IsoFormat(clock),
     timestamp     |-> clock,
     diagnosis     |-> "",
     status        |-> "pending_diagnosis"]

NewDocument(r, summary) ==
    [original_text |-> r.text,
     summary       |-> summary,
     patient_id    |-> r.patient_id,
     visit_date    |-> VisitDateOrNow(r.visit_date),
     timestamp     |-> clock,
     diagnosis     |-> "",
     status        |-> "pending_diagnosis"]

create_summary(r, outcome, id, storeUp) ==
    LET summary == generate_summary(r.text, outcome)
    IN  /\ id \notin DOMAIN store
        /\ clock < MaxClock
        /\ req' = Merge(r, [op |-> "create_summary", storeUp |-> storeUp])
        /\ IF storeUp
           THEN /\ store' = Merge(store, [i \in {id} |-> NewDocument(r, summary)])
                /\ clock' = clock + 1
                /\ resp' = Response(Return([document_id |-> id,
                                            summary |-> summary,
                                            status |-> "success"]))
           ELSE /\ resp' = Response(Except(Raise(StoreError),
                                           "Error creating summary"))
                /\ UNCHANGED <<store, clock>>
        /\ UNCHANGED updated

(***************************************************************************)
(* POST /update_diagnosis                                                  *)
(***************************************************************************)
\* faulty variant: the update leaves status as it is
DiagnosisFields_noStatus(r) ==
    [diagnosis |-> r.diagnosis, updated_at |-> clock]

\* faulty variant: the update also writes the request's patient_id
DiagnosisFields_withPatient(r) ==
    [diagnosis |-> r.diagnosis, status |-> "completed", updated_at |-> clock,
     patient_id |-> r.patient_id]

DiagnosisFields(r) ==
    [diagnosis |-> r.diagnosis, status |-> "completed", updated_at |-> clock]

\* faulty variant: a completed document is not written again
DocUpdate_once(doc, r) ==
    IF doc.status = "completed" THEN doc
    ELSE [k \in DOMAIN doc \cup {"diagnosis", "status", "updated_at"} |->
             CASE k = "diagnosis" -> r.diagnosis
               [] k = "status" -> "completed"
               [] k = "updated_at" -> clock
               [] OTHER -> doc[k]]

\* doc_ref.update({...}) on the stored document
DocUpdate(doc, r) == Merge(doc, DiagnosisFields(r))

\* faulty variant: the document must also belong to the request's patient
DocExists_owned(r) ==
    /\ r.document_id \in DOMAIN store
    /\ store[r.document_id].patient_id = r.patient_id

\* doc_ref.get().exists
DocExists(r) == r.document_id \in DOMAIN store

\* fault: the store call that raises, "get", "update" or "none"
update_diagnosis(r, fault) ==
    LET exists == DocExists(r)
        body == IF fault = "get" THEN Raise(StoreError)
                ELSE IF ~exists
                     THEN Raise(HTTPException(404, "Document not found"))
                ELSE IF fault = "update" THEN Raise(StoreError)
                ELSE Return([status |-> "success",
                             document_id |-> r.document_id,
                             message |-> "Diagnosis updated successfully"])
    IN  /\ clock < MaxClock
        /\ req' = Merge(r, [op |-> "update_diagnosis", fault |-> fault])
        /\ resp' = Response(ExceptStr(body))
        /\ IF body.raised
           THEN UNCHANGED <<store, clock, updated>>
           ELSE /\ store' = [store EXCEPT ![r.document_id] = DocUpdate(@, r)]
                /\ clock' = clock + 1
                /\ updated' = updated \cup {r.document_id}

(***************************************************************************)
(* GET /patient/{patient_id}/history                                       *)
(***************************************************************************)
get_patient_history(patient_id, storeUp) ==
    LET ids == Query(patient_id)
        summaries == [n \in 1..Len(ids) |-> Merge(store[ids[n]], [id |-> ids[n]])]
        body == IF ~storeUp THEN Raise(StoreError)
                ELSE IF summaries = <<>>
                     THEN Return([status |-> "success",
                                  message |-> "No records found for this patient",
                                  data |-> <<>>])
                ELSE Return([status |-> "success", data |-> summaries])
    IN  /\ req' = [op |-> "get_patient_history", patient_id |-> patient_id,
                   storeUp |-> storeUp]
        /\ resp' = Response(ExceptStr(body))
        /\ UNCHANGED <<store, clock, updated>>

SummaryRequests ==
    [text : Texts, patient_id : Patients,
     visit_date : {None} \cup {Some(d) : d \in Dates}]
DiagnosisUpdates ==
    [document_id : Ids, diagnosis : Diagnoses, patient_id : Patients]
\* the summarizer's outcomes while serving requests; its failure is an
\* input of SpecText
ApiOutcomes == {Some(<<"a", " ", "<", "/", "s", ">">>)}
Faults == {"none", "get", "update"}

Next ==
    \/ \E storeUp \in BOOLEAN : read_root(storeUp) /\ UNCHANGED <<textVars, raceVars>>
    \/ \E r \in SummaryRequests, outcome \in ApiOutcomes,
          id \in Ids, storeUp \in BOOLEAN :
          create_summary(r, outcome, id, storeUp) /\ UNCHANGED <<textVars, raceVars>>
    \/ \E r \in DiagnosisUpdates, fault \in Faults :
          update_diagnosis(r, fault) /\ UNCHANGED <<textVars, raceVars>>
    \/ \E p \in Patients, storeUp \in BOOLEAN :
          get_patient_history(p, storeUp) /\ UNCHANGED <<textVars, raceVars>>

Spec == Init /\ [][Next]_vars

TextNext ==
    \/ \E piece \in Pieces, pos \in 0..Len(text.value) :
          TextInsert(piece, pos) /\ UNCHANGED <<apiVars, raceVars>>
    \/ \E front \in BOOLEAN : TextPad(front) /\ UNCHANGED <<apiVars, raceVars>>
    \/ CallCleanText /\ UNCHANGED <<apiVars, raceVars>>
    \/ \E outcome \in SummarizerOutcomes :
          CallGenerateSummary(outcome) /\ UNCHANGED <<apiVars, raceVars>>

SpecText == Init /\ [][TextNext]_vars

(***************************************************************************)
(* Two update_diagnosis requests served concurrently (two server           *)
(* processes over one store): the existence check and the write of a       *)
(* request are separate store calls, and the calls of the two requests     *)
(* interleave.  lastWriter records whose write the store applied last.     *)
(***************************************************************************)
Procs == {1, 2}

RaceBegin(p, r) ==
    /\ inflight[p].pc = "idle"
    /\ r.document_id \in DOMAIN store
    /\ inflight' = [inflight EXCEPT ![p] = [pc |-> "get", req |-> r]]
    /\ UNCHANGED <<apiVars, lastWriter>>

\* doc = doc_ref.get()
RaceGet(p) ==
    /\ inflight[p].pc = "get"
    /\ inflight' = [inflight EXCEPT ![p] =
           [pc |-> "update", req |-> @.req,
            exists |-> DocExists(@.req)]]
    /\ UNCHANGED <<apiVars, lastWriter>>

\* if not doc.exists: raise ...; doc_ref.update({...}); return {...}
RaceUpdate(p) ==
    LET r == inflight[p].req
        body == IF ~inflight[p].exists
                THEN Raise(HTTPException(404, "Document not found"))
                ELSE Return([status |-> "success",
                             document_id |-> r.document_id,
                             message |-> "Diagnosis updated successfully"])
    IN  /\ inflight[p].pc = "update"
        /\ clock < MaxClock
        /\ inflight' = [inflight EXCEPT ![p] =
               [pc |-> "done", req |-> r, resp |-> Response(ExceptStr(body))]]
        /\ IF body.raised
           THEN UNCHANGED <<store, clock, updated, lastWriter>>
           ELSE /\ store' = [store EXCEPT ![r.document_id] = DocUpdate(@, r)]
                /\ clock' = clock + 1
                /\ updated' = updated \cup {r.document_id}
                /\ lastWriter' = p
        /\ UNCHANGED <<req, resp>>

RaceNext ==
    \/ \E r \in SummaryRequests, outcome \in ApiOutcomes, id \in Ids :
          store = <<>> /\ create_summary(r, outcome, id, TRUE)
                       /\ UNCHANGED <<textVars, raceVars>>
    \/ \E p \in Procs, r \in DiagnosisUpdates : RaceBegin(p, r) /\ UNCHANGED textVars
    \/ \E p \in Procs : RaceGet(p) /\ UNCHANGED textVars
    \/ \E p \in Procs : RaceUpdate(p) /\ UNCHANGED textVars

SpecRace == Init /\ [][RaceNext]_vars

(***************************************************************************)
(* Properties of the text functions (checked under SpecText).              *)
(***************************************************************************)
Contains(s, m) == \E i \in 1..Len(s) : i + Len(m) - 1 <= Len(s)
                     /\ \A k \in 1..Len(m) : s[i + k - 1] = m[k]
Normalized(s) ==
    /\ \A m \in Markers : ~Contains(s, m)
    /\ \A i \in 1..(Len(s) - 1) : ~(s[i] = " " /\ s[i + 1] = " ")
    /\ s # <<>> => s[1] \notin Whitespace /\ s[Len(s)] \notin Whitespace

\* C3: whatever the input, the output of clean_text contains none of the
\* four markers, no run of two or more spaces and no leading or trailing
\* whitespace.
C3_CleanTextNormalizes ==
    result.op = "clean_text" => Normalized(result.value)

FallbackTaken == result.op = "generate_summary" /\ result.outcome = None

Created == DOMAIN store' \ DOMAIN store
UpdateStep == req'.op = "update_diagnosis"
CreateStep == req'.op = "create_summary"

\* C1: an update_diagnosis request whose document_id names no record ends
\* with a 404, distinct from the generic 500, and leaves the store as it was.
C1_UnknownIdNotFound ==
    [][(UpdateStep /\ req'.fault # "get" /\ req'.document_id \notin DOMAIN store)
          => resp'.status_code = 404 /\ store' = store]_vars

\* C4: a successful create_summary inserts exactly one new record, with the
\* request's text and patient_id, status pending_diagnosis and an empty
\* diagnosis; the response carries that record's id and its stored summary.
C4_CreateInsertsOne ==
    [][(CreateStep /\ resp'.status_code = 200) =>
          /\ Cardinality(Created) = 1
          /\ \A i \in DOMAIN store : i \in DOMAIN store' /\ store'[i] = store[i]
          /\ \A i \in Created :
                /\ store'[i].original_text = req'.text
                /\ store'[i].patient_id = req'.patient_id
                /\ store'[i].status = "pending_diagnosis"
                /\ store'[i].diagnosis = ""
                /\ resp'.body.document_id = i
                /\ resp'.body.summary = store'[i].summary]_vars

\* a second record was created from a text that the normalizer would change
C4_Witness ==
    /\ req.op = "create_summary" /\ resp.status_code = 200
    /\ Cardinality(DOMAIN store) = 2
    /\ clean_text(req.text) # req.text

\* C5: an update_diagnosis request on an existing id succeeds whatever its
\* patient_id, and leaves the record completed, with the submitted
\* diagnosis and with updated_at set, also when the record was completed
\* before.
C5_UpdateKnownId ==
    [][(UpdateStep /\ req'.fault = "none" /\ req'.document_id \in DOMAIN store) =>
          /\ resp'.status_code = 200
          /\ LET doc == store'[req'.document_id]
             IN  /\ doc.status = "completed"
                 /\ doc.diagnosis = req'.diagnosis
                 /\ "updated_at" \in DOMAIN doc]_vars

\* the only record was updated a second time, by a request naming a
\* patient other than the record's
C5_Witness ==
    /\ req.op = "update_diagnosis" /\ resp.status_code = 200
    /\ Cardinality(DOMAIN store) = 1
    /\ LET doc == store[req.document_id]
       IN  /\ doc.patient_id # req.patient_id
           /\ doc.updated_at = doc.timestamp + 2

\* C6: a record starts at pending_diagnosis, changes status only from
\* pending_diagnosis to completed in a successful update_diagnosis on its
\* id, is never removed, and is completed exactly when a successful
\* update_diagnosis on its id has occurred.
C6_StatusStep ==
    /\ \A i \in DOMAIN store :
          /\ i \in DOMAIN store'
          /\ store'[i].status # store[i].status =>
                /\ store[i].status = "pending_diagnosis"
                /\ store'[i].status = "completed"
                /\ UpdateStep /\ req'.document_id = i /\ resp'.status_code = 200
    /\ \A i \in Created : store'[i].status = "pending_diagnosis" /\ CreateStep
C6_StatusLifecycle ==
    /\ [][C6_StatusStep]_vars
    /\ [](\A i \in DOMAIN store : store[i].status = "completed" <=> i \in updated)

\* one record completed next to one still pending
C6_Witness ==
    /\ \E i \in DOMAIN store : store[i].status = "completed" /\ i \in updated
    /\ \E i \in DOMAIN store : store[i].status = "pending_diagnosis"

\* C7: patient-history for p succeeds with exactly the records whose
\* patient_id is p, each once and with its own id, by visit_date
\* descending; with no record it succeeds with an empty list and a message.
C7_HistoryExact ==
    (req.op = "get_patient_history" /\ req.storeUp) =>
        /\ resp.status_code = 200
        /\ resp.body.status = "success"
        /\ LET data == resp.body.data
               mine == {i \in DOMAIN store : store[i].patient_id = req.patient_id}
           IN  /\ Len(data) = Cardinality(mine)
               /\ {data[n].id : n \in 1..Len(data)} = mine
               /\ \A n \in 1..Len(data) :
                     /\ DOMAIN data[n] = DOMAIN store[data[n].id] \cup {"id"}
                     /\ \A k \in DOMAIN store[data[n].id] :
                           data[n][k] = store[data[n].id][k]
               /\ \A m, n \in 1..Len(data) :
                     m < n => ~StrLess(data[m].visit_date, data[n].visit_date)
               /\ mine = {} => data = <<>> /\ "message" \in DOMAIN resp.body

\* a history of two records with different visit dates
C7_Witness ==
    /\ req.op = "get_patient_history" /\ resp.status_code = 200
    /\ Len(resp.body.data) = 2
    /\ resp.body.data[1].visit_date # resp.body.data[2].visit_date

\* C8 as stated: create_summary stores every supplied visit_date string
\* unchanged, the empty string included, and the current time only when
\* visit_date is absent.
C8_SuppliedDateKept ==
    [][(CreateStep /\ resp'.status_code = 200) =>
          \A i \in Created :
             store'[i].visit_date =
                IF req'.visit_date # None THEN req'.visit_date[1]
                ELSE IsoFormat(clock)]_vars

\* C8 amended: create_summary stores a supplied non-empty visit_date
\* unchanged, and the current time when visit_date is absent or the empty
\* string.
C8_NonEmptyDateKept ==
    [][(CreateStep /\ resp'.status_code = 200) =>
          \A i \in Created :
             store'[i].visit_date =
                IF req'.visit_date \notin {None, Some(<<>>)} THEN req'.visit_date[1]
                ELSE IsoFormat(clock)]_vars

\* a record created from a request whose visit_date is the empty string
C8_Witness ==
    /\ req.op = "create_summary" /\ resp.status_code = 200
    /\ req.visit_date = Some(<<>>)
    /\ \E i \in DOMAIN store : store[i].visit_date # <<>> /\ store[i].timestamp = clock - 1

\* C9: update_diagnosis changes nothing but diagnosis, status and
\* updated_at of the targeted record; patient-history and the health check
\* change nothing in the store.
C9_Frame ==
    [][/\ UpdateStep =>
            /\ DOMAIN store' = DOMAIN store
            /\ \A i \in DOMAIN store :
                  IF i = req'.document_id
                  THEN \A k \in DOMAIN store[i] \ {"diagnosis", "status", "updated_at"} :
                          k \in DOMAIN store'[i] /\ store'[i][k] = store[i][k]
                  ELSE store'[i] = store[i]
       /\ req'.op \in {"get_patient_history", "read_root"} => store' = store]_vars

\* a record of two was updated by a request naming another patient
C9_Witness ==
    /\ req.op = "update_diagnosis" /\ resp.status_code = 200
    /\ Cardinality(DOMAIN store) = 2
    /\ store[req.document_id].patient_id # req.patient_id

(***************************************************************************)
(* Property of concurrent updates (checked under SpecRace).                *)
(***************************************************************************)
BothDone ==
    /\ \A p \in Procs : inflight[p].pc = "done"
    /\ inflight[1].req.document_id = inflight[2].req.document_id

\* C10: however the checks and writes of two concurrent update_diagnosis
\* requests on one existing id interleave, both succeed and the record ends
\* completed with the diagnosis of the request that wrote last.
C10_LastWriteWins ==
    BothDone =>
        LET doc == store[inflight[1].req.document_id]
        IN  /\ \A p \in Procs : inflight[p].resp.status_code = 200
            /\ doc.status = "completed"
            /\ lastWriter \in Procs
            /\ doc.diagnosis = inflight[lastWriter].req.diagnosis
            /\ doc.diagnosis # ""
            /\ doc.diagnosis \in {inflight[p].req.diagnosis : p \in Procs}

\* both requests done with different diagnoses, request 1 having written last
C10_Witness ==
    /\ BothDone
    /\ inflight[1].req.diagnosis # inflight[2].req.diagnosis
    /\ lastWriter = 1

====
